---- MODULE Spec2Model ----
(***************************************************************************)
(* A state-machine model of ntc.py: the per-year, per-storm aggregation of *)
(* revised (best-track) and operational (OFCL cone) statistics, the        *)
(* baseline means, and the NTC normalisation.                              *)
(*                                                                         *)
(* Conventions.  A missing number (numpy nan) is the value NaN; a missing  *)
(* type code (a float nan in a list of strings) is the string TypeNaN.     *)
(* Day totals are counted in quarter days (0.25 day = 1).  ACE is counted  *)
(* in units of 10^-4 kt^2.  Ratios and NTC values are exact rationals      *)
(* extended with the IEEE results of a division by zero (inf, nan).        *)
(***************************************************************************)
EXTENDS Integers, Sequences, FiniteSets, TLC

\* ------------------------------------------------------------ constants

start_printing == 1980
no_OFCL == IF start_printing > 1954 THEN start_printing ELSE 1954
bad_names == {"UNNAMED"}

\* the two baseline windows and the year at which NTC_OFCL changes baseline
BaseFirst == 1950
Base50Last == 2000
Base40Last == 1990
OFCLSwitch == 2001

\* ---------------------------------------------------------------- bounds

MaxStorms == 2
MaxObs == 2
MaxCycles == 2

\* ------------------------------------------------------ missing values

NaN == -1
TypeNaN == "nan"

\* pd.isnull on a number and on a type code
isnull(v) == v = NaN
isnull_type(t) == t = TypeNaN

\* lo <= v <= hi as Python evaluates it on a float that may be nan
Between(lo, v, hi) == v # NaN /\ lo <= v /\ v <= hi
AtLeast(v, lo) == v # NaN /\ v >= lo

\* np.nanmax of a non-empty list: the largest value that is not nan, nan if
\* every value is
nanmax(s) ==
    LET real == {s[j] : j \in DOMAIN s} \ {NaN}
    IN IF real = {} THEN NaN ELSE CHOOSE m \in real : \A x \in real : x <= m

InList(x, s) == \E j \in DOMAIN s : s[j] = x

\* list.insert(0, x)
Insert0(s, x) == <<x>> \o s

\* list.index(x): the first position (1-based here) holding x
IndexOf(s, x) == CHOOSE j \in DOMAIN s : s[j] = x /\ \A h \in 1..(j-1) : s[h] # x

\* ------------------------------------------------- storm classification

\* RevisedCounts with the major-hurricane branch leaving out HU += 1.
RevisedCounts_NoHU(types, vmaxs) ==
    IF InList("HU", types) /\ AtLeast(nanmax(vmaxs), 96) THEN <<1, 0, 1>>
    ELSE IF InList("HU", types) /\ Between(64, nanmax(vmaxs), 95) THEN <<1, 1, 0>>
    ELSE IF (InList("TS", types) \/ InList("SS", types))
            /\ Between(34, nanmax(vmaxs), 63) THEN <<1, 0, 0>>
    ELSE <<0, 0, 0>>

\* Lines 157-170: the increments <<NS, HU, MH>> of one storm, from its peak
\* wind and the type codes it ever had.
RevisedCounts(types, vmaxs) ==
    IF InList("HU", types) /\ AtLeast(nanmax(vmaxs), 96) THEN <<1, 1, 1>>
    ELSE IF InList("HU", types) /\ Between(64, nanmax(vmaxs), 95) THEN <<1, 1, 0>>
    ELSE IF (InList("TS", types) \/ InList("SS", types))
            /\ Between(34, nanmax(vmaxs), 63) THEN <<1, 0, 0>>
    ELSE <<0, 0, 0>>

\* Lines 181-198: the quarter days <<NS_days, HU_days, MH_days>> one
\* observation adds.
ObsDays(extra, type, vmax) ==
    IF extra = 0 /\ type \in {"TS", "SS"} /\ Between(34, vmax, 63) THEN <<1, 0, 0>>
    ELSE IF extra = 0 /\ type = "HU" /\ Between(64, vmax, 95) THEN <<1, 1, 0>>
    ELSE IF extra = 0 /\ type = "HU" /\ AtLeast(vmax, 96) THEN <<1, 1, 1>>
    ELSE <<0, 0, 0>>

\* Lines 408-423: the same classification on the operational estimates.
\* Python evaluates np.nanmax only after the membership test succeeded, so it
\* is never applied to an empty list.
OpCounts(types, vmaxs) ==
    IF InList("HU", types) /\ AtLeast(nanmax(vmaxs), 96) THEN <<1, 1, 1>>
    ELSE IF InList("HU", types) /\ Between(64, nanmax(vmaxs), 95) THEN <<1, 1, 0>>
    ELSE IF (InList("TS", types) \/ InList("SS", types))
            /\ Between(34, nanmax(vmaxs), 63) THEN <<1, 0, 0>>
    ELSE <<0, 0, 0>>

\* OpDays with the hurricane branch leaving out OFCL_NS_days += 0.25.
OpDays_NoNS(type, vmax) ==
    IF type \in {"TS", "SS"} /\ Between(34, vmax, 63) THEN <<1, 0, 0>>
    ELSE IF type = "HU" /\ Between(64, vmax, 95) THEN <<0, 1, 0>>
    ELSE IF type = "HU" /\ AtLeast(vmax, 96) THEN <<1, 1, 1>>
    ELSE <<0, 0, 0>>

\* Lines 430-447: the quarter days one operational estimate adds.
OpDays(type, vmax) ==
    IF type \in {"TS", "SS"} /\ Between(34, vmax, 63) THEN <<1, 0, 0>>
    ELSE IF type = "HU" /\ Between(64, vmax, 95) THEN <<1, 1, 0>>
    ELSE IF type = "HU" /\ AtLeast(vmax, 96) THEN <<1, 1, 1>>
    ELSE <<0, 0, 0>>

\* Lines 454-457: the ACE one operational estimate adds.
OpAce(type, vmax) ==
    IF vmax # NaN /\ type \in {"SS", "TS", "HU"} THEN vmax * vmax ELSE 0

\* --------------------------------------------------------- data source

\* One best-track observation: type code, wind, supplementary flag.
Obs(t, v, e) == [type |-> t, vmax |-> v, extra |-> e]

\* The observations the data source may hold, weakest first.
ObsSet ==
    << Obs("TD", 30, 0), Obs("TS", 50, 0), Obs("HU", 80, 0), Obs("HU", 100, 0),
       Obs("HU", 100, 1) >>

BriefObsSet == << Obs("TS", 50, 0) >>

\* The observation lists of a storm, of 1 to MaxObs observations taken from
\* S in the order of S.  The script sums and maximises over the observations,
\* so lists that differ only in their order are not told apart.
ObsSeqs(S) ==
    UNION { { [j \in 1..n |-> S[f[j]]] :
                f \in { g \in [1..n -> DOMAIN S] : \A j \in 1..(n-1) : g[j] <= g[j+1] } } :
            n \in 1..MaxObs }

\* storm_raw.to_dict(): parallel lists over the observations
StormDict(name, obs, ace) ==
    [name |-> name,
     type |-> [j \in DOMAIN obs |-> obs[j].type],
     vmax |-> [j \in DOMAIN obs |-> obs[j].vmax],
     extra_obs |-> [j \in DOMAIN obs |-> obs[j].extra],
     ace |-> ace]

NoStorm == [name |-> "", type |-> <<>>, vmax |-> <<>>, extra_obs |-> <<>>, ace |-> 0]

AceSet == {25}

StormDomain ==
    { StormDict(n, o, a) : n \in {"ALPHA", "UNNAMED"}, a \in AceSet, o \in ObsSeqs(ObsSet) }

BriefStormDomain ==
    { StormDict(n, o, a) : n \in {"ALPHA", "UNNAMED"}, a \in AceSet, o \in ObsSeqs(BriefObsSet) }

\* One entry of a forecast cycle: wind, type code, position, pressure.
Entry(v, t, la, lo, p) == [vmax |-> v, type |-> t, lat |-> la, lon |-> lo, mslp |-> p]

EA == Entry(50, "TS", 11, 21, 1000)
EB == Entry(100, "HU", 12, 22, 950)
EC == Entry(NaN, TypeNaN, 13, 23, NaN)
ED == Entry(80, "HU", 14, 24, 980)

\* A forecast cycle (one value of the OFCL or CARQ dictionary): parallel lists.
Cycle(hours, es) ==
    [fhr |-> hours,
     lat |-> [j \in DOMAIN hours |-> es[j].lat],
     lon |-> [j \in DOMAIN hours |-> es[j].lon],
     vmax |-> [j \in DOMAIN hours |-> es[j].vmax],
     mslp |-> [j \in DOMAIN hours |-> es[j].mslp],
     type |-> [j \in DOMAIN hours |-> es[j].type]]

\* The forecasts the data source may hold for one initialisation time.
CycleSet ==
    { Cycle(<<>>, <<>>),
      Cycle(<<3>>, <<EA>>),
      Cycle(<<12>>, <<EA>>),
      Cycle(<<0, 3>>, <<EA, EB>>),
      Cycle(<<0, 3>>, <<EC, EA>>),
      Cycle(<<0, 12>>, <<EA, EB>>),
      Cycle(<<0, 12>>, <<EC, EA>>),
      Cycle(<<3, 12>>, <<EA, EB>>),
      Cycle(<<12, 24>>, <<EB, ED>>),
      Cycle(<<12, 3>>, <<EA, EB>>),
      Cycle(<<12, 24, 3>>, <<EA, EB, ED>>) }

\* The OFCL dictionary, in the order of its keys (initialisation times): key k
\* is position k.
CycleLists(S, n) == UNION { [1..m -> S] : m \in 0..n }

Forecasts == CycleLists(CycleSet, MaxCycles)

BriefForecasts ==
    { <<>>,
      << Cycle(<<0, 3>>, <<EA, EB>>) >>,
      << Cycle(<<12, 24>>, <<EA, ED>>) >> }

\* CARQ[ofcl_init], or its absence.  present = FALSE: the key is not in CARQ.
NoCarq ==
    [present |-> FALSE, fhr |-> <<>>, lat |-> <<>>, lon |-> <<>>, vmax |-> <<>>,
     mslp |-> <<>>, type |-> <<>>]

Carq(hours, es) == [present |-> TRUE] @@ Cycle(hours, es)

CarqSet ==
    { NoCarq,
      Carq(<<-12>>, <<Entry(40, "TS", 31, 41, 1005)>>),
      Carq(<<0>>, <<Entry(45, "TS", 32, 42, 1004)>>),
      Carq(<<-24, -12, 0>>, <<Entry(30, "", 33, 43, 1008), Entry(35, "", 34, 44, 1006),
                             Entry(70, "", 35, 45, 985)>>),
      Carq(<<0>>, <<Entry(NaN, "", 36, 46, NaN)>>) }

BriefCarqSet ==
    { NoCarq, Carq(<<0>>, <<Entry(45, "TS", 32, 42, 1004)>>),
      Carq(<<-12, 0>>, <<Entry(60, "TS", 37, 47, 995), Entry(70, "HU", 38, 48, 985)>>) }

\* tropycal.tracks.tools.get_type(vmax, subtropical_flag)
get_type(v, subtrop) ==
    IF subtrop
    THEN IF AtLeast(v, 34) THEN "SS" ELSE "SD"
    ELSE IF AtLeast(v, 64) THEN "HU" ELSE IF AtLeast(v, 34) THEN "TS" ELSE "TD"

\* ------------------------------------------------------- backfill pass

\* Line 256: the cycle has no initial forecast hour.
NeedsBackfill(ofcl) == Len(ofcl.fhr) = 0 \/ (Len(ofcl.fhr) > 0 /\ ofcl.fhr[1] = 12)

\* Line 270: CARQ has the initialisation time, with an entry at hour 0.
CarqHit(c) == c.present /\ InList(0, c.fhr)

\* Lines 286-291: the type code spliced in.
SplicedType(c, hr_idx) ==
    LET itype == c.type[hr_idx]
    IN IF itype = ""
       THEN IF ~isnull(c.vmax[hr_idx]) THEN get_type(c.vmax[1], FALSE) ELSE TypeNaN
       ELSE itype

\* The splice with the first CARQ entry taken in place of the hour-0 entry.
Splice_FirstEntry(ofcl, c) ==
    [fhr |-> Insert0(ofcl.fhr, 0),
     lat |-> Insert0(ofcl.lat, c.lat[1]),
     lon |-> Insert0(ofcl.lon, c.lon[1]),
     vmax |-> Insert0(ofcl.vmax, c.vmax[1]),
     mslp |-> Insert0(ofcl.mslp, c.mslp[1]),
     type |-> Insert0(ofcl.type, SplicedType(c, IndexOf(c.fhr, 0)))]

\* Lines 275-292: the CARQ hour-0 entry put at the front of every list.
Splice(ofcl, c) ==
    LET hr_idx == IndexOf(c.fhr, 0)
    IN [fhr |-> Insert0(ofcl.fhr, c.fhr[hr_idx]),
        lat |-> Insert0(ofcl.lat, c.lat[hr_idx]),
        lon |-> Insert0(ofcl.lon, c.lon[hr_idx]),
        vmax |-> Insert0(ofcl.vmax, c.vmax[hr_idx]),
        mslp |-> Insert0(ofcl.mslp, c.mslp[hr_idx]),
        type |-> Insert0(ofcl.type, SplicedType(c, hr_idx))]

\* ------------------------------------------------ per-cycle extraction

Outcome(o, v, t) == [outcome |-> o, vmax |-> v, type |-> t]

\* The extraction without hour 3 with the use_carq test of line 356 left out:
\* any cycle that has entries gives its index-0 pair.
ExtractNoHour3_AnyIndex0(forecast, carried_vmax, carried_type, ucarq) ==
    IF Len(forecast.mslp) > 1 /\ forecast.fhr[1] = 0
    THEN IF isnull(forecast.vmax[1]) /\ isnull_type(forecast.type[1])
         THEN Outcome("append", carried_vmax, carried_type)
         ELSE Outcome("append", forecast.vmax[1], forecast.type[1])
    ELSE IF Len(forecast.vmax) > 0
    THEN Outcome("append", forecast.vmax[1], forecast.type[1])
    ELSE Outcome("append", carried_vmax, carried_type)

\* Lines 320-379: hour 3 is not in the cycle.  Every branch leaves append
\* True, so the carried or new estimate is appended.
ExtractNoHour3(forecast, carried_vmax, carried_type, ucarq) ==
    IF Len(forecast.mslp) > 1 /\ forecast.fhr[1] = 0
    THEN IF isnull(forecast.vmax[1]) /\ isnull_type(forecast.type[1])
         THEN Outcome("append", carried_vmax, carried_type)
         ELSE Outcome("append", forecast.vmax[1], forecast.type[1])
    ELSE IF ucarq /\ Len(forecast.vmax) > 0
    THEN Outcome("append", forecast.vmax[1], forecast.type[1])
    ELSE IF ~ucarq /\ carried_vmax # 0
    THEN Outcome("append", carried_vmax, carried_type)
    ELSE Outcome("append", carried_vmax, carried_type)

\* The extraction with hour 3 taking the index-0 pair at line 384.
ExtractHour3_Index0(forecast, carried_vmax, carried_type) ==
    IF Len(forecast.fhr) < 2 THEN Outcome("IndexError", carried_vmax, carried_type)
    ELSE IF forecast.fhr[2] = 3 THEN Outcome("append", forecast.vmax[1], forecast.type[1])
    ELSE IF Len(forecast.fhr) < 3 THEN Outcome("IndexError", carried_vmax, carried_type)
    ELSE IF forecast.fhr[3] = 3 /\ forecast.fhr[1] = 0
    THEN Outcome("append", forecast.vmax[3], forecast.type[3])
    ELSE Outcome("skip", carried_vmax, carried_type)

\* Lines 384-393: hour 3 is in the cycle.  forecast['fhr'][1] and
\* forecast['fhr'][2] are read without a length check.
ExtractHour3(forecast, carried_vmax, carried_type) ==
    IF Len(forecast.fhr) < 2 THEN Outcome("IndexError", carried_vmax, carried_type)
    ELSE IF forecast.fhr[2] = 3 THEN Outcome("append", forecast.vmax[2], forecast.type[2])
    ELSE IF Len(forecast.fhr) < 3 THEN Outcome("IndexError", carried_vmax, carried_type)
    ELSE IF forecast.fhr[3] = 3 /\ forecast.fhr[1] = 0
    THEN Outcome("append", forecast.vmax[3], forecast.type[3])
    ELSE Outcome("skip", carried_vmax, carried_type)

\* Lines 311-401: what one forecast does to (OFCL_vmax, OFCL_type) and
\* whether the pair is appended.
Extract(forecast, carried_vmax, carried_type, ucarq) ==
    IF ~InList(3, forecast.fhr)
    THEN ExtractNoHour3(forecast, carried_vmax, carried_type, ucarq)
    ELSE ExtractHour3(forecast, carried_vmax, carried_type)

\* ------------------------------------------------- float arithmetic

RECURSIVE GCD(_, _)
GCD(a, b) == IF b = 0 THEN a ELSE GCD(b, a % b)

\* A finite value n/d in lowest terms (n >= 0, d > 0), or inf, or nan.
Rat(n, d) == LET g == GCD(n, d) IN [k |-> "num", n |-> n \div g, d |-> d \div g]
NaNQ == [k |-> "nan", n |-> 0, d |-> 1]
InfQ == [k |-> "inf", n |-> 0, d |-> 1]

\* x / m for a non-negative number x and a mean m, as numpy divides:
\* 0/0 and x/nan are nan, x/0 is inf for x > 0.
DivQ(x, m) ==
    IF m.k = "nan" THEN NaNQ
    ELSE IF m.n = 0 THEN (IF x = 0 THEN NaNQ ELSE InfQ)
    ELSE Rat(x * m.d, m.n)

AddQ(a, b) ==
    IF a.k = "nan" \/ b.k = "nan" THEN NaNQ
    ELSE IF a.k = "inf" \/ b.k = "inf" THEN InfQ
    ELSE Rat(a.n * b.d + b.n * a.d, a.d * b.d)

\* a / den * num for positive integers num, den
ScaleQ(a, num, den) == IF a.k = "num" THEN Rat(a.n * num, a.d * den) ELSE a

RECURSIVE SumSeq(_)
SumSeq(s) == IF s = <<>> THEN 0 ELSE s[1] + SumSeq(Tail(s))

\* np.array(list).mean(): nan for an empty list
ArrayMean(s) == IF s = <<>> THEN NaNQ ELSE Rat(SumSeq(s), Len(s))

Fields == <<"NS", "HU", "MH", "NS_days", "HU_days", "MH_days">>

\* ------------------------------------------------------------ baselines

\* [yr[f] for yr in tc_storms if first <= int(yr['year']) <= last]
WindowValues(storms, f, first, last) ==
    LET keep == SelectSeq(storms, LAMBDA yr : first <= yr.year /\ yr.year <= last)
    IN [j \in DOMAIN keep |-> keep[j][f]]

\* Lines 523-528 and 533-538: the six means over one window.
WindowMeans(storms, first, last) ==
    [f \in {Fields[j] : j \in DOMAIN Fields} |->
        ArrayMean(WindowValues(storms, f, first, last))]

NoMeans == [f \in {Fields[j] : j \in DOMAIN Fields} |-> NaNQ]

\* -------------------------------------------------------- normalisation

\* Lines 546-551, 581-582, 590: 100 * the mean of the six ratios.
NTC(yr, m) ==
    ScaleQ(AddQ(AddQ(AddQ(AddQ(AddQ(DivQ(yr.NS, m.NS), DivQ(yr.HU, m.HU)),
                                DivQ(yr.MH, m.MH)),
                           DivQ(yr.NS_days, m.NS_days)),
                      DivQ(yr.HU_days, m.HU_days)),
                 DivQ(yr.MH_days, m.MH_days)),
           100, 6)

\* Line 563: the operational record of the year.
OFCLYear(ofcl_storms, y) ==
    SelectSeq(ofcl_storms, LAMBDA oyr : oyr.year = y)[1]

\* The stored NTC_OFCL with the two baselines changing places one year early.
NTC_OFCL_of_From2001(yr, ofcl_storms, m50, m40) ==
    IF yr.year > no_OFCL
    THEN IF yr.year >= OFCLSwitch
         THEN NTC(OFCLYear(ofcl_storms, yr.year), m50)
         ELSE NTC(OFCLYear(ofcl_storms, yr.year), m40)
    ELSE Rat(0, 1)

\* Lines 562-577, 585-587, 592, 602-603: the NTC_OFCL stored for a year.
NTC_OFCL_of(yr, ofcl_storms, m50, m40) ==
    IF yr.year > no_OFCL
    THEN IF yr.year > OFCLSwitch
         THEN NTC(OFCLYear(ofcl_storms, yr.year), m50)
         ELSE NTC(OFCLYear(ofcl_storms, yr.year), m40)
    ELSE Rat(0, 1)

\* Lines 474-483: the year's record.
YearRecord(y, ace, oace, ns, hu, mh, nsd, hud, mhd) ==
    [year |-> y, ACE |-> ace, OFCL_ACE |-> oace, NS |-> ns, HU |-> hu, MH |-> mh,
     NS_days |-> nsd, HU_days |-> hud, MH_days |-> mhd]

\* Lines 487-495: the year's operational record.
OFCLYearRecord(y, oace, ns, hu, mh, nsd, hud, mhd) ==
    [year |-> y, ACE |-> oace, NS |-> ns, HU |-> hu, MH |-> mh,
     NS_days |-> nsd, HU_days |-> hud, MH_days |-> mhd]

\* ---------------------------------------------------------------- state

VARIABLES
    pc,             \* the place in the script
    years,          \* the years the year loop runs over (line 68)
    yi,             \* the position of the year loop in years
    num_storms,     \* line 98
    storm,          \* the storm number of the storm loop (line 118)
    storm_dict,     \* storm_raw.to_dict() (line 141)
    i,              \* the observation / estimate loop index (lines 180, 428)
    NS, HU, MH, NS_days, HU_days, MH_days, accum_ace,
    OFCL_NS, OFCL_HU, OFCL_MH, OFCL_NS_days, OFCL_HU_days, OFCL_MH_days,
    OFCL_accum_ace,
    OFCL_vmax, OFCL_type,           \* the carried estimate (line 222)
    use_carq,                       \* line 229
    OFCL_vmax_list, OFCL_type_list, \* lines 233-234
    OFCL,           \* op_storm['OFCL'], in key order (line 243)
    key,            \* the position of the forecast loops in OFCL (lines 252, 311)
    carq,           \* CARQ[ofcl_init] as last looked up (line 267)
    tc_storms, OFCL_tc_storms,      \* lines 39-40
    means50, means40,               \* lines 523-538
    yr_i,           \* the position of the normalisation loop (line 543)
    missing         \* the storms reported as having no data (line 145)

loopVars == <<years, yi, num_storms, storm, storm_dict, i>>
revVars == <<NS, HU, MH, NS_days, HU_days, MH_days, accum_ace>>
opVars == <<OFCL_NS, OFCL_HU, OFCL_MH, OFCL_NS_days, OFCL_HU_days, OFCL_MH_days,
            OFCL_accum_ace>>
cycVars == <<OFCL_vmax, OFCL_type, use_carq, OFCL_vmax_list, OFCL_type_list, OFCL,
             key, carq>>
outVars == <<tc_storms, OFCL_tc_storms, means50, means40, yr_i, missing>>
vars == <<pc, loopVars, revVars, opVars, cycVars, outVars>>

year == years[yi]

\* The script before the year loop (lines 29-40); the accumulators and the
\* per-storm variables do not exist yet and are given their first values.
InitYears(ys) ==
    /\ pc = "year"
    /\ years = ys
    /\ yi = 1
    /\ num_storms = 0
    /\ storm = 1
    /\ storm_dict = NoStorm
    /\ i = 1
    /\ NS = 0 /\ HU = 0 /\ MH = 0 /\ NS_days = 0 /\ HU_days = 0 /\ MH_days = 0
    /\ accum_ace = 0
    /\ OFCL_NS = 0 /\ OFCL_HU = 0 /\ OFCL_MH = 0
    /\ OFCL_NS_days = 0 /\ OFCL_HU_days = 0 /\ OFCL_MH_days = 0
    /\ OFCL_accum_ace = 0
    /\ OFCL_vmax = 0 /\ OFCL_type = ""
    /\ use_carq = FALSE
    /\ OFCL_vmax_list = <<>> /\ OFCL_type_list = <<>>
    /\ OFCL = <<>>
    /\ key = 1
    /\ carq = NoCarq
    /\ tc_storms = <<>> /\ OFCL_tc_storms = <<>>
    /\ means50 = NoMeans /\ means40 = NoMeans
    /\ yr_i = 1
    /\ missing = <<>>

\* ------------------------------------------------------ season aggregator

\* Lines 108-115: the accumulators of a year start at zero.
ResetYear ==
    /\ NS' = 0 /\ HU' = 0 /\ MH' = 0 /\ NS_days' = 0 /\ HU_days' = 0 /\ MH_days' = 0
    /\ accum_ace' = 0
    /\ OFCL_NS' = 0 /\ OFCL_HU' = 0 /\ OFCL_MH' = 0
    /\ OFCL_NS_days' = 0 /\ OFCL_HU_days' = 0 /\ OFCL_MH_days' = 0
    /\ OFCL_accum_ace' = 0

\* Lines 68-118: a year begins; the data source says how many storms it had.
YearStart(maxStorms) ==
    /\ pc = "year"
    /\ \E n \in 0..maxStorms : num_storms' = n
    /\ ResetYear
    /\ storm' = 1
    /\ pc' = "storm"
    /\ UNCHANGED <<years, yi, storm_dict, i, cycVars, outVars>>

\* The failed retrieval ending the storm loop of the year (a break in place
\* of the continue of line 146).
GetStormFails_Break ==
    /\ pc = "storm" /\ storm <= num_storms
    /\ missing' = Append(missing, storm)
    /\ storm' = num_storms + 1
    /\ UNCHANGED <<pc, years, yi, num_storms, storm_dict, i, revVars, opVars,
                   cycVars, tc_storms, OFCL_tc_storms, means50, means40, yr_i>>

\* Lines 139-146: get_storm or to_dict raises; the storm is reported and
\* passed by.
GetStormFails ==
    /\ pc = "storm" /\ storm <= num_storms
    /\ missing' = Append(missing, storm)
    /\ storm' = storm + 1
    /\ UNCHANGED <<pc, years, yi, num_storms, storm_dict, i, revVars, opVars,
                   cycVars, tc_storms, OFCL_tc_storms, means50, means40, yr_i>>

\* Lines 140-141: the storm is retrieved and converted.
GetStorm(domain) ==
    /\ pc = "storm" /\ storm <= num_storms
    /\ \E d \in domain : storm_dict' = d
    /\ pc' = "fetched"
    /\ UNCHANGED <<years, yi, num_storms, storm, i, revVars, opVars, cycVars, outVars>>

\* The exclusion with the name test moved below line 170: an excluded storm
\* that reached hurricane strength is counted before it is passed by.
Excluded_HurricaneCounted ==
    /\ pc = "fetched"
    /\ storm_dict.name \in bad_names
    /\ LET c == RevisedCounts(storm_dict.type, storm_dict.vmax)
       IN IF c[2] = 1
          THEN /\ accum_ace' = accum_ace + storm_dict.ace
               /\ NS' = NS + c[1] /\ HU' = HU + c[2] /\ MH' = MH + c[3]
          ELSE UNCHANGED <<accum_ace, NS, HU, MH>>
    /\ storm_dict' = NoStorm
    /\ storm' = storm + 1
    /\ pc' = "storm"
    /\ UNCHANGED <<years, yi, num_storms, i, NS_days, HU_days, MH_days, opVars,
                   cycVars, outVars>>

\* Lines 142-143: the storm's name is on the exclusion list; the storm is
\* passed by.  The loop variable takes the place of the storm's record.
Excluded ==
    /\ pc = "fetched"
    /\ storm_dict.name \in bad_names
    /\ storm_dict' = NoStorm
    /\ storm' = storm + 1
    /\ pc' = "storm"
    /\ UNCHANGED <<years, yi, num_storms, i, revVars, opVars, cycVars, outVars>>

\* Lines 154-170: the storm's ACE and its peak category are added to the
\* year.
Accumulate ==
    /\ pc = "fetched"
    /\ storm_dict.name \notin bad_names
    /\ accum_ace' = accum_ace + storm_dict.ace
    /\ LET c == RevisedCounts(storm_dict.type, storm_dict.vmax)
       IN NS' = NS + c[1] /\ HU' = HU + c[2] /\ MH' = MH + c[3]
    /\ i' = 1
    /\ pc' = "obs"
    /\ UNCHANGED <<years, yi, num_storms, storm, storm_dict, NS_days, HU_days, MH_days,
                   opVars, cycVars, outVars>>

\* Lines 180-198: one observation of the storm.
ObsStep ==
    /\ pc = "obs" /\ i <= Len(storm_dict.extra_obs)
    /\ LET c == ObsDays(storm_dict.extra_obs[i], storm_dict.type[i], storm_dict.vmax[i])
       IN /\ NS_days' = NS_days + c[1]
          /\ HU_days' = HU_days + c[2]
          /\ MH_days' = MH_days + c[3]
    /\ i' = i + 1
    /\ UNCHANGED <<pc, years, yi, num_storms, storm, storm_dict, NS, HU, MH, accum_ace,
                   opVars, cycVars, outVars>>

\* Lines 222-225 in a year without operational data: the carried estimate is
\* reset and the storm is done.  The storm's record is not read again and is
\* dropped, as is the loop index.
NoOperational ==
    /\ pc = "obs" /\ i > Len(storm_dict.extra_obs)
    /\ ~(year > no_OFCL)
    /\ OFCL_vmax' = 0 /\ OFCL_type' = ""
    /\ storm_dict' = NoStorm
    /\ i' = 1
    /\ storm' = storm + 1
    /\ pc' = "storm"
    /\ UNCHANGED <<years, yi, num_storms, revVars, opVars, use_carq,
                   OFCL_vmax_list, OFCL_type_list, OFCL, key, carq, outVars>>

\* The fetch of the forecasts without the resets of lines 222 and 229: the
\* carried estimate and use_carq stay as the last storm left them.
GetOperational_NoReset(forecasts) ==
    /\ pc = "obs" /\ i > Len(storm_dict.extra_obs)
    /\ year > no_OFCL
    /\ OFCL_vmax_list' = <<>> /\ OFCL_type_list' = <<>>
    /\ \E o \in forecasts : OFCL' = o
    /\ key' = 1
    /\ storm_dict' = NoStorm
    /\ i' = 1
    /\ pc' = "backfill"
    /\ UNCHANGED <<years, yi, num_storms, storm, revVars, opVars, OFCL_vmax,
                   OFCL_type, use_carq, carq, outVars>>

\* Lines 222-244: the per-storm operational state is reset and the storm's
\* forecasts are fetched.  The storm's best-track record is not read again
\* and is dropped.
GetOperational(forecasts) ==
    /\ pc = "obs" /\ i > Len(storm_dict.extra_obs)
    /\ year > no_OFCL
    /\ OFCL_vmax' = 0 /\ OFCL_type' = ""
    /\ use_carq' = FALSE
    /\ OFCL_vmax_list' = <<>> /\ OFCL_type_list' = <<>>
    /\ \E o \in forecasts : OFCL' = o
    /\ key' = 1
    /\ storm_dict' = NoStorm
    /\ i' = 1
    /\ pc' = "backfill"
    /\ UNCHANGED <<years, yi, num_storms, storm, revVars, opVars, carq, outVars>>

\* ------------------------------------------------- operational reconciler

\* Lines 252-300: one forecast of the backfill pass.  The CARQ entry at the
\* forecast's initialisation time is read only when the forecast needs it.
BackfillStep(carqs) ==
    /\ pc = "backfill" /\ key <= Len(OFCL)
    /\ IF NeedsBackfill(OFCL[key])
       THEN \E c \in carqs :
              /\ carq' = c
              /\ IF CarqHit(c)
                 THEN /\ use_carq' = TRUE
                      /\ OFCL' = [OFCL EXCEPT ![key] = Splice(OFCL[key], c)]
                 ELSE UNCHANGED <<use_carq, OFCL>>
       ELSE UNCHANGED <<carq, use_carq, OFCL>>
    /\ key' = key + 1
    /\ UNCHANGED <<pc, loopVars, revVars, opVars, OFCL_vmax, OFCL_type,
                   OFCL_vmax_list, OFCL_type_list, outVars>>

\* Line 311: the backfill pass is over and the extraction pass begins.
BackfillDone ==
    /\ pc = "backfill" /\ key > Len(OFCL)
    /\ key' = 1
    /\ carq' = NoCarq
    /\ pc' = "extract"
    /\ UNCHANGED <<loopVars, revVars, opVars, OFCL_vmax, OFCL_type, use_carq,
                   OFCL_vmax_list, OFCL_type_list, OFCL, outVars>>

\* Lines 311-401: one forecast of the extraction pass.  An IndexError is not
\* caught anywhere: the script ends there.
ExtractStep ==
    /\ pc = "extract" /\ key <= Len(OFCL)
    /\ LET r == Extract(OFCL[key], OFCL_vmax, OFCL_type, use_carq)
       IN /\ OFCL_vmax' = r.vmax
          /\ OFCL_type' = r.type
          /\ IF r.outcome = "append"
             THEN /\ OFCL_vmax_list' = Append(OFCL_vmax_list, r.vmax)
                  /\ OFCL_type_list' = Append(OFCL_type_list, r.type)
             ELSE UNCHANGED <<OFCL_vmax_list, OFCL_type_list>>
          /\ IF r.outcome = "IndexError"
             THEN pc' = "crashed" /\ key' = key
             ELSE pc' = pc /\ key' = key + 1
    /\ UNCHANGED <<loopVars, revVars, opVars, use_carq, OFCL, carq, outVars>>

\* Lines 408-423: the storm's operational peak category.
OpClassify ==
    /\ pc = "extract" /\ key > Len(OFCL)
    /\ LET c == OpCounts(OFCL_type_list, OFCL_vmax_list)
       IN /\ OFCL_NS' = OFCL_NS + c[1]
          /\ OFCL_HU' = OFCL_HU + c[2]
          /\ OFCL_MH' = OFCL_MH + c[3]
    /\ i' = 1
    /\ pc' = "op_days"
    /\ UNCHANGED <<years, yi, num_storms, storm, storm_dict, revVars, OFCL_NS_days,
                   OFCL_HU_days, OFCL_MH_days, OFCL_accum_ace, cycVars, outVars>>

\* Lines 428-457: one operational estimate of the storm.
OpDayStep ==
    /\ pc = "op_days" /\ i <= Len(OFCL_vmax_list)
    /\ LET c == OpDays(OFCL_type_list[i], OFCL_vmax_list[i])
       IN /\ OFCL_NS_days' = OFCL_NS_days + c[1]
          /\ OFCL_HU_days' = OFCL_HU_days + c[2]
          /\ OFCL_MH_days' = OFCL_MH_days + c[3]
    /\ OFCL_accum_ace' = OFCL_accum_ace + OpAce(OFCL_type_list[i], OFCL_vmax_list[i])
    /\ i' = i + 1
    /\ UNCHANGED <<pc, years, yi, num_storms, storm, storm_dict, revVars, OFCL_NS,
                   OFCL_HU, OFCL_MH, cycVars, outVars>>

\* Line 118: the storm is done; on to the next one.  The storm's forecasts
\* and the list of its estimates are not read again and are dropped, as are
\* the loop indices, which every for statement sets anew.
StormDone ==
    /\ pc = "op_days" /\ i > Len(OFCL_vmax_list)
    /\ storm' = storm + 1
    /\ OFCL' = <<>>
    /\ OFCL_vmax_list' = <<>> /\ OFCL_type_list' = <<>>
    /\ i' = 1 /\ key' = 1
    /\ pc' = "storm"
    /\ UNCHANGED <<years, yi, num_storms, storm_dict, revVars, opVars, OFCL_vmax,
                   OFCL_type, use_carq, carq, outVars>>

\* ------------------------------------------------------------- year end

\* Lines 474-496: the year's records are appended.
YearEnd ==
    /\ pc = "storm" /\ storm > num_storms
    /\ tc_storms' = Append(tc_storms,
            YearRecord(year, accum_ace, OFCL_accum_ace, NS, HU, MH,
                       NS_days, HU_days, MH_days))
    /\ IF year > no_OFCL
       THEN OFCL_tc_storms' = Append(OFCL_tc_storms,
                OFCLYearRecord(year, OFCL_accum_ace, OFCL_NS, OFCL_HU, OFCL_MH,
                               OFCL_NS_days, OFCL_HU_days, OFCL_MH_days))
       ELSE UNCHANGED OFCL_tc_storms
    /\ IF yi < Len(years)
       THEN yi' = yi + 1 /\ pc' = "year"
       ELSE yi' = yi /\ pc' = "baseline"
    /\ UNCHANGED <<years, num_storms, storm, storm_dict, i, revVars, opVars, cycVars,
                   means50, means40, yr_i, missing>>

\* ----------------------------------------------- baseline and normaliser

\* Lines 523-540: the means over 1950-2000 and over 1950-1990.
Baseline ==
    /\ pc = "baseline"
    /\ means50' = WindowMeans(tc_storms, BaseFirst, Base50Last)
    /\ means40' = WindowMeans(tc_storms, BaseFirst, Base40Last)
    /\ yr_i' = 1
    /\ pc' = "normalize"
    /\ UNCHANGED <<loopVars, revVars, opVars, cycVars, tc_storms, OFCL_tc_storms,
                   missing>>

\* Lines 543-603: one year is normalised and its record updated.
Normalize ==
    /\ pc = "normalize" /\ yr_i <= Len(tc_storms)
    /\ LET yr == tc_storms[yr_i]
       IN tc_storms' = [tc_storms EXCEPT ![yr_i] =
              yr @@ [NTC_50 |-> NTC(yr, means50),
                     NTC_OFCL |-> NTC_OFCL_of(yr, OFCL_tc_storms, means50, means40)]]
    /\ yr_i' = yr_i + 1
    /\ UNCHANGED <<pc, loopVars, revVars, opVars, cycVars, OFCL_tc_storms, means50,
                   means40, missing>>

\* Line 612: every year is normalised.
NormalizeDone ==
    /\ pc = "normalize" /\ yr_i > Len(tc_storms)
    /\ pc' = "report"
    /\ UNCHANGED <<loopVars, revVars, opVars, cycVars, outVars>>

\* ------------------------------------------------------- specifications

\* The season aggregator and the reconciler on one year of storms, a year
\* without operational data or one with it.
SingleYears == { <<1980>>, <<1981>> }

Init == \E ys \in SingleYears : InitYears(ys)

Next ==
    \/ YearStart(MaxStorms)
    \/ GetStormFails
    \/ GetStorm(StormDomain)
    \/ Excluded
    \/ Accumulate
    \/ ObsStep
    \/ NoOperational
    \/ GetOperational(BriefForecasts)
    \/ BackfillStep(BriefCarqSet)
    \/ BackfillDone
    \/ ExtractStep
    \/ OpClassify
    \/ OpDayStep
    \/ StormDone
    \/ YearEnd

Spec == Init /\ [][Next]_vars

\* The reconciler on the forecasts of one storm of a year with operational
\* data.
InitOp == InitYears(<<1981>>)

NextOp ==
    \/ YearStart(1)
    \/ GetStormFails
    \/ GetStorm(BriefStormDomain)
    \/ Excluded
    \/ Accumulate
    \/ ObsStep
    \/ GetOperational(Forecasts)
    \/ BackfillStep(CarqSet)
    \/ BackfillDone
    \/ ExtractStep
    \/ OpClassify
    \/ OpDayStep
    \/ StormDone
    \/ YearEnd

SpecOp == InitOp /\ [][NextOp]_vars

\* The year loop, the baselines and the normaliser on several years; the
\* storm loop of a year is replaced by the totals it leaves.
Stats(ns, hu, mh, nsd, hud, mhd, ace) ==
    [NS |-> ns, HU |-> hu, MH |-> mh, NS_days |-> nsd, HU_days |-> hud,
     MH_days |-> mhd, ACE |-> ace]

RevisedTotals ==
    { Stats(1, 0, 0, 4, 0, 0, 25), Stats(2, 1, 1, 8, 4, 2, 50),
      Stats(3, 2, 2, 12, 8, 4, 75) }

OperationalTotals == { Stats(0, 0, 0, 0, 0, 0, 0), Stats(1, 1, 0, 6, 2, 0, 40) }

\* Lines 68-466: a year's storm loop, by the totals it ends with.  In a year
\* without operational data the operational accumulators stay at zero.
SeasonTotals ==
    /\ pc = "year"
    /\ \E r \in RevisedTotals :
        /\ NS' = r.NS /\ HU' = r.HU /\ MH' = r.MH
        /\ NS_days' = r.NS_days /\ HU_days' = r.HU_days /\ MH_days' = r.MH_days
        /\ accum_ace' = r.ACE
    /\ \E o \in (IF year > no_OFCL THEN OperationalTotals
                 ELSE {Stats(0, 0, 0, 0, 0, 0, 0)}) :
        /\ OFCL_NS' = o.NS /\ OFCL_HU' = o.HU /\ OFCL_MH' = o.MH
        /\ OFCL_NS_days' = o.NS_days /\ OFCL_HU_days' = o.HU_days
        /\ OFCL_MH_days' = o.MH_days
        /\ OFCL_accum_ace' = o.ACE
    /\ num_storms' = 0
    /\ storm' = 1
    /\ pc' = "storm"
    /\ UNCHANGED <<years, yi, storm_dict, i, cycVars, outVars>>

SampleYears == <<1980, 1981, 2000, 2001, 2002>>

InitNTC == InitYears(SampleYears)

NextNTC ==
    \/ SeasonTotals
    \/ YearEnd
    \/ Baseline
    \/ Normalize
    \/ NormalizeDone

SpecNTC == InitNTC /\ [][NextNTC]_vars

\* ================================================================ claims

Counts == <<NS, HU, MH>>
OFCLCounts == <<OFCL_NS, OFCL_HU, OFCL_MH>>
Days == <<NS_days, HU_days, MH_days>>
OFCLDays == <<OFCL_NS_days, OFCL_HU_days, OFCL_MH_days>>

\* c is <<named storms, hurricanes, major hurricanes>>
Nested(c) == c[3] <= c[2] /\ c[2] <= c[1]

\* From c to d every counter grows by 0 or by step, the third only with the
\* second and the second only with the first.
NestedStep(c, d, step) ==
    /\ \A j \in 1..3 : d[j] - c[j] \in {0, step}
    /\ (d[3] > c[3] => d[2] > c[2])
    /\ (d[2] > c[2] => d[1] > c[1])

\* C1: in every state MH <= HU <= NS for the revised and for the operational
\* counters, and within a year every step (every storm) raises each counter
\* by at most one, MH only together with HU and NS, HU only together with NS.
C1_CountsNested ==
    /\ [](Nested(Counts) /\ Nested(OFCLCounts))
    /\ [][pc # "year" => /\ NestedStep(Counts, Counts', 1)
                         /\ NestedStep(OFCLCounts, OFCLCounts', 1)]_vars

\* Two storms are counted, one of them a major hurricane, in the revised and
\* in the operational counters.
C1_Witness ==
    /\ pc = "baseline"
    /\ Counts = <<2, 1, 1>>
    /\ OFCLCounts = <<2, 1, 1>>

\* C2: in every state NS_days >= HU_days >= MH_days for the revised and for
\* the operational day totals, and within a year every step (every
\* observation, every estimate) adds a quarter day to MH_days only together
\* with HU_days and NS_days, to HU_days only together with NS_days.
C2_DaysNested ==
    /\ [](Nested(Days) /\ Nested(OFCLDays))
    /\ [][pc # "year" => /\ NestedStep(Days, Days', 1)
                         /\ NestedStep(OFCLDays, OFCLDays', 1)]_vars

\* The three day totals differ, in the revised and in the operational data.
C2_Witness ==
    /\ pc = "baseline"
    /\ Days = <<3, 2, 1>>
    /\ OFCLDays[1] > OFCLDays[2] /\ OFCLDays[2] >= OFCLDays[3] /\ OFCLDays[3] > 0

FieldSet == {Fields[j] : j \in DOMAIN Fields}

\* The records of tc_storms that the normaliser has updated.
Normalized == {j \in DOMAIN tc_storms : "NTC_50" \in DOMAIN tc_storms[j]}

\* C3: a normalised year whose six raw fields each equal the 1950-2000
\* baseline mean of the field has NTC_50 = 100.0 exactly, also when some of
\* the baseline means are zero (one named storm and no hurricane in every
\* year).
C3_AverageYearIs100 ==
    \A j \in Normalized :
        (\A f \in FieldSet : means50[f] = Rat(tc_storms[j][f], 1))
            => tc_storms[j].NTC_50 = Rat(100, 1)

\* Some baseline mean is zero.
ZeroMean == \E f \in FieldSet : means50[f] = Rat(0, 1)

\* C3, for the years the division is defined for: a normalised year whose six
\* raw fields each equal the 1950-2000 baseline mean of the field, none of the
\* means being zero, has NTC_50 = 100.0 exactly.
C3_AverageYearIs100_NonZero ==
    \A j \in Normalized :
        (~ZeroMean /\ \A f \in FieldSet : means50[f] = Rat(tc_storms[j][f], 1))
            => tc_storms[j].NTC_50 = Rat(100, 1)

\* A storm that is about to be passed by for its name.
ExcludedStorm == pc = "fetched" /\ storm_dict.name \in bad_names

\* What a year reports: the accumulators and the records already stored.
YearStats == <<revVars, opVars, tc_storms, OFCL_tc_storms>>

\* C4: the retrieval of a storm changes no year-level statistic, and the step
\* that passes by a storm named on the exclusion list changes none either,
\* revised or operational, whatever the storm's observations are; the storm
\* loop goes on with the next storm.
C4_ExcludedStormCountsNothing ==
    [][/\ (pc = "storm" /\ pc' = "fetched") => UNCHANGED YearStats
       /\ ExcludedStorm => /\ UNCHANGED YearStats
                           /\ pc' = "storm" /\ storm' = storm + 1]_vars

\* A year of two storms, none of them missing, ends with the totals of one
\* storm: the other one was passed by for its name.
C4_Witness ==
    /\ pc = "baseline"
    /\ num_storms = 2 /\ missing = <<>>
    /\ NS = 1 /\ accum_ace = 25
    /\ tc_storms[1].NS = 1 /\ tc_storms[1].ACE = 25

\* C5: no forecast cycle ends the run: whatever its forecast hours are, the
\* extraction of a cycle either appends an estimate or skips the cycle, and
\* the pass goes on with the next cycle.
C5_NoFatalError ==
    [][pc = "extract" /\ key <= Len(OFCL)
         => /\ pc' = "extract" /\ key' = key + 1
            /\ \/ UNCHANGED <<OFCL_vmax_list, OFCL_type_list>>
               \/ /\ Len(OFCL_vmax_list') = Len(OFCL_vmax_list) + 1
                  /\ Len(OFCL_type_list') = Len(OFCL_type_list) + 1]_vars

\* C6: a storm whose record cannot be retrieved changes no accumulator and no
\* stored record, the storm loop goes on with the next storm, and the year
\* ends only when every storm of it has had its turn, with one record for
\* the year.
C6_MissingStormSkipped ==
    /\ [][missing' # missing => /\ UNCHANGED YearStats
                                /\ pc' = "storm" /\ storm' = storm + 1]_vars
    /\ [](pc = "baseline" => /\ storm = num_storms + 1
                             /\ Len(tc_storms) = Len(years))

\* The first of two storms was not retrieved and the second one is in the
\* year's totals.
C6_Witness ==
    /\ pc = "baseline"
    /\ num_storms = 2 /\ missing = <<1>>
    /\ NS = 1 /\ NS_days > 0 /\ accum_ace = 25
    /\ tc_storms[1].NS = 1 /\ tc_storms[1].ACE = 25

CycleLists6 == <<"fhr", "lat", "lon", "vmax", "mslp", "type">>

\* The six parallel lists of a cycle have one length.
Parallel(cycle) ==
    \A a \in DOMAIN CycleLists6 :
        Len(cycle[CycleLists6[a]]) = Len(cycle.fhr)

\* C7: when the backfill pass comes to a cycle that is empty or starts at
\* hour 12, and CARQ has an hour-0 entry at the cycle's initialisation time,
\* the cycle gets at index 0 the hour 0 and the wind, latitude, longitude and
\* pressure of that CARQ entry, the entries it had follow unchanged and in
\* order, and the six lists have one length still.
C7_BackfillSplicesHour0 ==
    [][(/\ pc = "backfill" /\ key <= Len(OFCL)
        /\ NeedsBackfill(OFCL[key])
        /\ carq'.present /\ InList(0, carq'.fhr))
         => LET old == OFCL[key]
                new == OFCL'[key]
            IN /\ \E h \in DOMAIN carq'.fhr :
                    /\ carq'.fhr[h] = 0
                    /\ new.fhr[1] = 0
                    /\ new.vmax[1] = carq'.vmax[h]
                    /\ new.lat[1] = carq'.lat[h]
                    /\ new.lon[1] = carq'.lon[h]
                    /\ new.mslp[1] = carq'.mslp[h]
               /\ \A a \in DOMAIN CycleLists6 :
                    Tail(new[CycleLists6[a]]) = old[CycleLists6[a]]
               /\ Parallel(new)
               /\ \A k \in DOMAIN OFCL : k # key => OFCL'[k] = OFCL[k]]_vars

\* A cycle of the hours 12 and 24 was given the hour-0 entry of a CARQ record
\* of the hours -24, -12 and 0.
C7_Witness ==
    /\ pc = "backfill" /\ key = 2
    /\ use_carq
    /\ carq.fhr = <<-24, -12, 0>>
    /\ OFCL[1].fhr = <<0, 12, 24>>
    /\ OFCL[1].vmax = <<70, 100, 80>>
    /\ OFCL[1].mslp = <<985, 950, 980>>

\* C8: a cycle whose forecast hour at index 1 is 3 appends the wind and the
\* type of its index 1, whatever the carried estimate is and whether or not
\* a cycle of the storm was backfilled.
C8_Hour3AtIndex1 ==
    [][(/\ pc = "extract" /\ key <= Len(OFCL)
        /\ Len(OFCL[key].fhr) >= 2
        /\ OFCL[key].fhr[2] = 3)
         => /\ OFCL_vmax_list' = Append(OFCL_vmax_list, OFCL[key].vmax[2])
            /\ OFCL_type_list' = Append(OFCL_type_list, OFCL[key].type[2])
            /\ pc' = "extract" /\ key' = key + 1]_vars

\* After a backfilled cycle gave the estimate (45, TS), a cycle of the hours
\* 0 and 3 gave the wind and type of its index 1 and not those of its index 0.
C8_Witness ==
    /\ pc = "extract" /\ key = 3
    /\ use_carq
    /\ OFCL[2].fhr = <<0, 3>>
    /\ OFCL[2].vmax = <<50, 100>>
    /\ OFCL_vmax_list = <<45, 100>>
    /\ OFCL_type_list = <<"TS", "HU">>

\* C9: with use_carq False, a cycle without hour 3 that does not have more
\* than one entry with first hour 0, coming when the carried wind is not zero,
\* appends the carried wind and type and leaves them as they are.
C9_CarryForward ==
    [][(/\ pc = "extract" /\ key <= Len(OFCL)
        /\ ~use_carq
        /\ ~InList(3, OFCL[key].fhr)
        /\ ~(Len(OFCL[key].mslp) > 1 /\ OFCL[key].fhr[1] = 0)
        /\ OFCL_vmax # 0)
         => /\ OFCL_vmax_list' = Append(OFCL_vmax_list, OFCL_vmax)
            /\ OFCL_type_list' = Append(OFCL_type_list, OFCL_type)
            /\ UNCHANGED <<OFCL_vmax, OFCL_type>>]_vars

\* A cycle of the hours 0 and 12 gave (50, TS); the next cycle, of the hours
\* 12 and 24 with a wind of 100 at index 0 and no CARQ entry, gave (50, TS)
\* again.
C9_Witness ==
    /\ pc = "extract" /\ key = 3
    /\ ~use_carq
    /\ OFCL[1].fhr = <<0, 12>>
    /\ OFCL[2].fhr = <<12, 24>>
    /\ OFCL[2].vmax[1] = 100
    /\ OFCL_vmax_list = <<50, 50>>
    /\ OFCL_type_list = <<"TS", "TS">>

\* The operational record of year y, if there is one.
HasOFCLYear(y) == \E k \in DOMAIN OFCL_tc_storms : OFCL_tc_storms[k].year = y

Extracting == pc = "extract" /\ key <= Len(OFCL)

\* The cycle the pass is at.
Cur == OFCL[key]

\* The cycle has more than one entry and starts at hour 0.
StartsAtHour0 == Len(Cur.mslp) > 1 /\ Cur.fhr[1] = 0

\* The data-quality gap: no hour 3, more than one entry, first hour 0, and
\* both the wind and the type of index 0 missing.
QualityGap ==
    /\ ~InList(3, Cur.fhr)
    /\ StartsAtHour0
    /\ isnull(Cur.vmax[1]) /\ isnull_type(Cur.type[1])

\* The final fall-through: no hour 3 and none of the rules for it applies.
FallThrough ==
    /\ ~InList(3, Cur.fhr)
    /\ ~StartsAtHour0
    /\ ~(use_carq /\ Len(Cur.vmax) > 0)
    /\ ~(~use_carq /\ OFCL_vmax # 0)

\* C11: a cycle that is a data-quality gap or falls through every rule adds
\* no pair to the storm's lists of estimates, whatever the carried estimate
\* is.
C11_SkippedCycleAddsNothing ==
    [][Extracting /\ (QualityGap \/ FallThrough)
         => UNCHANGED <<OFCL_vmax_list, OFCL_type_list>>]_vars

\* The carried estimate and the index-0 pair of the cycle the pass is at.
Carried == <<OFCL_vmax, OFCL_type>>
Index0 == <<Cur.vmax[1], Cur.type[1]>>

\* The cycle has entries, does not start at hour 0 (so the backfill pass put
\* nothing in front of it) and has no hour 3.
NotBackfilled ==
    /\ Len(Cur.fhr) > 0
    /\ Cur.fhr[1] # 0
    /\ ~InList(3, Cur.fhr)

\* C12: a cycle that was not backfilled and does not start at hour 0 does
\* not make its index-0 pair the estimate, whether or not another cycle of
\* the storm was backfilled: after its step the estimate is the index-0 pair
\* only if it was that before.
C12_BackfilledRulePerCycle ==
    [][Extracting /\ NotBackfilled
         => (Carried' = Index0 => Carried = Index0)]_vars

\* The backfill pass is at a cycle that is empty or starts at hour 12, and
\* the CARQ record read for it has an hour 0.
Backfilling ==
    /\ pc = "backfill" /\ key <= Len(OFCL)
    /\ NeedsBackfill(OFCL[key])
    /\ carq'.present /\ InList(0, carq'.fhr)

\* C13: when the CARQ hour-0 entry has a wind and a blank type code, the
\* type spliced at index 0 of the cycle is the speed-to-type classification
\* of the wind spliced at index 0, wherever the hour-0 entry is in the CARQ
\* record.
C13_BlankTypeFromSplicedWind ==
    [][(/\ Backfilling
        /\ \E h \in DOMAIN carq'.fhr :
              /\ carq'.fhr[h] = 0
              /\ carq'.type[h] = ""
              /\ ~isnull(carq'.vmax[h]))
         => OFCL'[key].type[1] = get_type(OFCL'[key].vmax[1], FALSE)]_vars

\* C14: a cycle with more than one entry that starts at hour 0, has the wind
\* or the type of its index 0, and has hour 3 neither at index 1 nor at
\* index 2, appends its index-0 wind and type, also when hour 3 is at index 3
\* or later.
C14_Index0WhenHour3Late ==
    [][(/\ Extracting
        /\ StartsAtHour0
        /\ ~(isnull(Cur.vmax[1]) /\ isnull_type(Cur.type[1]))
        /\ Cur.fhr[2] # 3
        /\ ~(Len(Cur.fhr) >= 3 /\ Cur.fhr[3] = 3))
         => /\ OFCL_vmax_list' = Append(OFCL_vmax_list, Cur.vmax[1])
            /\ OFCL_type_list' = Append(OFCL_type_list, Cur.type[1])]_vars

\* A baseline mean a ratio can be taken against: defined and not zero.
Usable(m) == m.k = "num" /\ m.n > 0

\* C15: no year is normalised against an unusable baseline: when a record
\* has got its NTC values, the twelve means its ratios were taken against
\* (lines 546-559) are all defined and not zero; with an unusable baseline
\* the run would have ended before the normaliser.
C15_NoUnusableBaseline ==
    Normalized # {} =>
        \A f \in FieldSet : Usable(means50[f]) /\ Usable(means40[f])

\* No estimate: the pair the carried estimate is reset to.
NoEstimate == <<0, "">>

\* The pairs of the cycles of the storm that the extraction pass has been at.
PairsSoFar ==
    UNION {{<<OFCL[k].vmax[h], OFCL[k].type[h]>> : h \in DOMAIN OFCL[k].vmax} :
            k \in {m \in DOMAIN OFCL : m < key}}

\* The estimates collected for the storm.
Estimates ==
    {<<OFCL_vmax_list[j], OFCL_type_list[j]>> : j \in DOMAIN OFCL_vmax_list}

\* C16: the operational processing of every storm starts with the carried
\* estimate (0, ''), use_carq False and no estimate collected; the carried
\* estimate and every collected one is (0, '') or a pair of a cycle of this
\* very storm; and a storm with no estimate but (0, '') changes no
\* operational counter, day total or ACE.
C16_PerStormState ==
    /\ [][pc = "obs" /\ pc' # "obs"
            => /\ Carried' = NoEstimate
               /\ (pc' = "backfill" => /\ ~use_carq'
                                       /\ OFCL_vmax_list' = <<>>
                                       /\ OFCL_type_list' = <<>>)]_vars
    /\ [](pc = "backfill" => Carried = NoEstimate /\ Estimates = {})
    /\ [](pc \in {"extract", "op_days"}
            => Estimates \cup {Carried} \subseteq PairsSoFar \cup {NoEstimate})
    /\ [][(pc \in {"extract", "op_days"} /\ Estimates \subseteq {NoEstimate})
            => UNCHANGED opVars]_vars

\* The first storm of the year was counted as a major hurricane; the second
\* one has a single cycle, of the hours 12 and 24 with no CARQ entry, and its
\* only estimate is (0, ''), which has been gone through.
C16_Witness ==
    /\ pc = "op_days" /\ storm = 2 /\ i = 2
    /\ OFCLCounts = <<1, 1, 1>> /\ OFCL_accum_ace = 10000
    /\ ~use_carq
    /\ Len(OFCL) = 1 /\ OFCL[1].fhr = <<12, 24>>
    /\ OFCL_vmax_list = <<0>> /\ OFCL_type_list = <<"">>

====
